---- MODULE Spec2Model ----
(***************************************************************************)
(* RdsModule (src/index.ts): the constructor that turns an RdsModuleConfig *)
(* into a graph of resource descriptions.  The constructor is one          *)
(* synchronous pass; pc is its position, and each action is one            *)
(* statement of the constructor (one `new ...` or one assignment block).   *)
(*                                                                         *)
(* An optional value (a `?:` field, an unassigned property) is a set:      *)
(* Undefined is the absent value, Some(v) the present value v.             *)
(* A terraform token (an attribute of a resource that is only known at     *)
(* apply time) is the string cdktf renders for it.                         *)
(***************************************************************************)
EXTENDS Integers, Sequences, FiniteSets, TLC

VARIABLES
    config,            \* the RdsModuleConfig handed to the constructor
    pc,                \* position in the constructor
    lookups,           \* ids of the data/time lookups created (caller, timestamp)
    defaultTags,       \* const defaultTags
    securityGroup,     \* this.securityGroup (optional)
    dbSubnetGroup,     \* const dbSubnetGroup (optional)
    rdsClusters,       \* RdsCluster resources emitted, in order
    clusterInstances,  \* RdsClusterInstance resources emitted, in order
    dbInstances,       \* DbInstance resources emitted, in order
    outputs,           \* TerraformOutput resources emitted, in order
    numInstances,      \* const numInstances
    i,                 \* loop variable of the instance loop
    rdsEndpoint,       \* this.rdsEndpoint (optional)
    username,          \* this.username (optional)
    password           \* this.password (optional)

vars ==
    <<config, pc, lookups, defaultTags, securityGroup, dbSubnetGroup, rdsClusters,
      clusterInstances, dbInstances, outputs, numInstances, i, rdsEndpoint,
      username, password>>

-----------------------------------------------------------------------------
(* Bounds of the model *)

MaxInstances == 2
MaxPad == 1

-----------------------------------------------------------------------------
(* Optional values *)

Undefined == {}
Some(v) == {v}
Get(opt) == CHOOSE v \in opt : TRUE

-----------------------------------------------------------------------------
(* Strings that are inspected character by character are sequences of     *)
(* one-character strings.                                                  *)

RECURSIVE IncludesFrom(_, _, _)
IncludesFrom(s, sub, k) ==
    IF k + Len(sub) - 1 > Len(s) THEN FALSE
    ELSE IF SubSeq(s, k, k + Len(sub) - 1) = sub THEN TRUE
    ELSE IncludesFrom(s, sub, k + 1)

\* String.prototype.includes: a case-sensitive substring test
Includes(s, sub) == IncludesFrom(s, sub, 1)

postgres == <<"p", "o", "s", "t", "g", "r", "e", "s">>

PostgresPort == 5432
MysqlPort == 3306

\* a mutation: a prefix test instead of a substring test
IngressPortPrefixOnly(engine) ==
    IF Len(engine) >= Len(postgres) /\ SubSeq(engine, 1, Len(postgres)) = postgres
    THEN PostgresPort ELSE MysqlPort

\* engine.includes("postgres") ? 5432 : 3306
IngressPort(engine) ==
    IF Includes(engine, postgres) THEN PostgresPort ELSE MysqlPort

\* `Allow ${engine.includes("postgres") ? "PostgreSQL" : "MySQL"} traffic`
IngressDescription(engine) ==
    "Allow " \o (IF Includes(engine, postgres) THEN "PostgreSQL" ELSE "MySQL") \o " traffic"

-----------------------------------------------------------------------------
(* Tags *)

EmptyTags == <<>>

\* a mutation: the spread written in the other order, defaults last
MergeTagsDefaultsWin(defaults, tags) ==
    [k \in DOMAIN defaults \cup DOMAIN tags |->
        IF k \in DOMAIN defaults THEN defaults[k] ELSE tags[k]]

\* { ...defaultTags, ...tags }: a later spread overrides an earlier one
MergeTags(defaults, tags) ==
    [k \in DOMAIN defaults \cup DOMAIN tags |->
        IF k \in DOMAIN tags THEN tags[k] ELSE defaults[k]]

\* tags = {} in the destructuring: the default applies to undefined only
Tags == IF config.tags = Undefined THEN EmptyTags ELSE Get(config.tags)

\* the token cdktf renders for attribute attr of resource (tfType, id)
Attr(tfType, id, attr) == "${" \o tfType \o "." \o id \o "." \o attr \o "}"

DefaultTags(serviceName, env) ==
    ("Name" :> (serviceName \o "-" \o env))
    @@ ("Service" :> serviceName)
    @@ ("ENV" :> env)
    @@ ("Provisioner" :> "CDKTF")
    @@ ("Provisioned By" :> Attr("data.aws_caller_identity", "caller", "user_id"))
    @@ ("Provisioned Date" :> Attr("time_static", "timestamp", "id"))

-----------------------------------------------------------------------------
(* Instance count, sizing class, multi-AZ *)

\* a mutation: the default written as 0 (numberOfInstances || 0)
NumInstancesZeroDefault(numberOfInstances) ==
    IF numberOfInstances = Undefined \/ Get(numberOfInstances) = 0
    THEN 0 ELSE Get(numberOfInstances)

\* numberOfInstances || 1: undefined and 0 are falsy
NumInstances(numberOfInstances) ==
    IF numberOfInstances = Undefined \/ Get(numberOfInstances) = 0
    THEN 1 ELSE Get(numberOfInstances)

\* instanceClass || "db.t4g.medium": undefined and "" are falsy
ClusterInstanceClass(instanceClass) ==
    IF instanceClass = Undefined \/ Get(instanceClass) = ""
    THEN "db.t4g.medium" ELSE Get(instanceClass)

\* a mutation: >= 1 instead of > 1
MultiAzAtLeastOne(numberOfInstances) ==
    numberOfInstances # Undefined /\ Get(numberOfInstances) >= 1

\* numberOfInstances !== undefined && numberOfInstances > 1
MultiAz(numberOfInstances) ==
    numberOfInstances # Undefined /\ Get(numberOfInstances) > 1

-----------------------------------------------------------------------------
(* References between resources, storage settings *)

\* a mutation: the published id instead of the published endpoint
EndpointOfId(r) == Attr(r.tfType, r.id, "id")

\* auroraCluster.endpoint, rdsInstance.endpoint
EndpointOf(r) == Attr(r.tfType, r.id, "endpoint")

\* a mutation: the security group left out
VpcSecurityGroupIdsEmpty(sg) == <<>>

\* vpcSecurityGroupIds: [this.securityGroup.id]
VpcSecurityGroupIds(sg) == <<Attr(sg.tfType, sg.id, "id")>>

\* dbSubnetGroupName: dbSubnetGroup.name
DbSubnetGroupName(g) == Attr(g.tfType, g.id, "name")

\* storageType of the RdsCluster
ClusterStorageType == "gp3"

\* a mutation: the older storage class
InstanceStorageTypeGp2 == "gp2"

\* storageType of the DbInstance
InstanceStorageType == "gp3"

\* a mutation: the branch condition negated
TakesClusterBranchNegated(isAurora) == ~isAurora

\* if (isAurora)
TakesClusterBranch(isAurora) == isAurora

-----------------------------------------------------------------------------
(* Configurations *)

RECURSIVE Pads(_)
\* the strings of at most n characters "s"
Pads(n) == IF n = 0 THEN {<<>>} ELSE Pads(n - 1) \cup {p \o <<"s">> : p \in Pads(n - 1)}

EngineCores ==
    { postgres,
      <<"P", "o", "s", "t", "g", "r", "e", "s">>,
      <<"p", "o", "s", "t", "g", "r", "e">>,
      <<"m", "y", "s", "q", "l">>,
      <<"a", "u", "r", "o", "r", "a", "-", "p", "o", "s", "t", "g", "r", "e", "s", "q", "l">>,
      <<"a", "u", "r", "o", "r", "a", "-", "m", "y", "s", "q", "l">> }

Engines == {pre \o core \o suf : pre \in Pads(MaxPad), core \in EngineCores, suf \in Pads(MaxPad)}

CallerTagKeys == {"Name", "team"}
CallerTagMaps == UNION {[ks -> {"custom"}] : ks \in SUBSET CallerTagKeys}

Vpc ==
    [vpc_id |-> "${module.vpc.vpc_id}",
     vpc_cidr |-> "${module.vpc.vpc_cidr}",
     vpc_ipv6_cidr |-> "${module.vpc.vpc_ipv6_cidr}",
     database_subnet_ids |-> "${module.vpc.database_subnet_ids}"]

RdsModuleConfig ==
    [username : {"admin"},
     password : {"secret"},
     maintenanceWindow : {"Mon:00:00-Mon:03:00"},
     backupWindow : {"03:00-06:00"},
     backupRetentionPeriod : {7},
     dbName : {"app"},
     engine : Engines,
     engineVersion : {"14"},
     instanceClass : {Undefined, Some(""), Some("db.t3.small")},
     isAurora : BOOLEAN,
     numberOfInstances : {Undefined} \cup {Some(k) : k \in -1..MaxInstances},
     allocatedStorage : {Undefined, Some(20)},
     serviceName : {"svc"},
     env : {"dev"},
     tags : {Undefined} \cup {Some(t) : t \in CallerTagMaps},
     vpc : {Vpc}]

-----------------------------------------------------------------------------
(* The constructor *)

Init ==
    /\ config \in RdsModuleConfig
    /\ pc = "lookups"
    /\ lookups = {}
    /\ defaultTags = Undefined
    /\ securityGroup = Undefined
    /\ dbSubnetGroup = Undefined
    /\ rdsClusters = <<>>
    /\ clusterInstances = <<>>
    /\ dbInstances = <<>>
    /\ outputs = <<>>
    /\ numInstances = 0
    /\ i = 0
    /\ rdsEndpoint = Undefined
    /\ username = Undefined
    /\ password = Undefined

\* new DataAwsCallerIdentity, new StaticResource, const defaultTags
CreateLookups ==
    /\ pc = "lookups"
    /\ lookups' = {"caller", "timestamp"}
    /\ defaultTags' = Some(DefaultTags(config.serviceName, config.env))
    /\ pc' = "securityGroup"
    /\ UNCHANGED <<config, securityGroup, dbSubnetGroup, rdsClusters, clusterInstances,
                   dbInstances, outputs, numInstances, i, rdsEndpoint, username, password>>

\* this.securityGroup = new SecurityGroup(this, "rds-sg", ...)
CreateSecurityGroup ==
    /\ pc = "securityGroup"
    /\ securityGroup' = Some(
         [tfType |-> "aws_security_group",
          id |-> "rds-sg",
          name |-> config.serviceName \o "-" \o config.env \o "-rds-sg",
          description |-> "Security group for " \o config.serviceName \o " RDS",
          vpcId |-> config.vpc.vpc_id,
          ingress |-> <<[protocol |-> "tcp",
                         fromPort |-> IngressPort(config.engine),
                         toPort |-> IngressPort(config.engine),
                         cidrBlocks |-> <<config.vpc.vpc_cidr>>,
                         ipv6CidrBlocks |-> <<config.vpc.vpc_ipv6_cidr>>,
                         description |-> IngressDescription(config.engine)]>>,
          egress |-> <<[protocol |-> "-1",
                        fromPort |-> 0,
                        toPort |-> 0,
                        cidrBlocks |-> <<"0.0.0.0/0">>,
                        ipv6CidrBlocks |-> <<"::/0">>]>>,
          tags |-> MergeTags(Get(defaultTags), Tags)])
    /\ pc' = "dbSubnetGroup"
    /\ UNCHANGED <<config, lookups, defaultTags, dbSubnetGroup, rdsClusters, clusterInstances,
                   dbInstances, outputs, numInstances, i, rdsEndpoint, username, password>>

\* const dbSubnetGroup = new DbSubnetGroup(this, "db-subnet-group", ...)
CreateDbSubnetGroup ==
    /\ pc = "dbSubnetGroup"
    /\ dbSubnetGroup' = Some(
         [tfType |-> "aws_db_subnet_group",
          id |-> "db-subnet-group",
          name |-> config.serviceName \o "-" \o config.env \o "-db-subnet-group",
          subnetIds |-> config.vpc.database_subnet_ids,
          tags |-> MergeTags(Get(defaultTags), Tags)])
    /\ pc' = "branch"
    /\ UNCHANGED <<config, lookups, defaultTags, securityGroup, rdsClusters, clusterInstances,
                   dbInstances, outputs, numInstances, i, rdsEndpoint, username, password>>

\* if (isAurora) { const auroraCluster = new RdsCluster(...); const numInstances = ...
CreateRdsCluster ==
    /\ pc = "branch"
    /\ TakesClusterBranch(config.isAurora)
    /\ rdsClusters' = Append(rdsClusters,
         [tfType |-> "aws_rds_cluster",
          id |-> "rds-cluster",
          clusterIdentifier |-> config.serviceName \o "-" \o config.env \o "-aurora-cluster",
          engine |-> config.engine,
          engineVersion |-> config.engineVersion,
          databaseName |-> config.dbName,
          masterUsername |-> config.username,
          masterPassword |-> config.password,
          backupRetentionPeriod |-> config.backupRetentionPeriod,
          preferredBackupWindow |-> config.backupWindow,
          preferredMaintenanceWindow |-> config.maintenanceWindow,
          skipFinalSnapshot |-> TRUE,
          storageType |-> ClusterStorageType,
          storageEncrypted |-> TRUE,
          dbSubnetGroupName |-> DbSubnetGroupName(Get(dbSubnetGroup)),
          vpcSecurityGroupIds |-> VpcSecurityGroupIds(Get(securityGroup)),
          tags |-> MergeTags(Get(defaultTags), Tags)])
    /\ numInstances' = NumInstances(config.numberOfInstances)
    /\ i' = 0
    /\ pc' = "loop"
    /\ UNCHANGED <<config, lookups, defaultTags, securityGroup, dbSubnetGroup, clusterInstances,
                   dbInstances, outputs, rdsEndpoint, username, password>>

\* one iteration of for (let i = 0; i < numInstances; i++) new RdsClusterInstance(...)
CreateRdsClusterInstance ==
    /\ pc = "loop"
    /\ i < numInstances
    /\ clusterInstances' = Append(clusterInstances,
         [tfType |-> "aws_rds_cluster_instance",
          id |-> "rds-cluster-instance-" \o ToString(i),
          clusterIdentifier |-> Attr(rdsClusters[1].tfType, rdsClusters[1].id, "id"),
          engine |-> Attr(rdsClusters[1].tfType, rdsClusters[1].id, "engine"),
          instanceClass |-> ClusterInstanceClass(config.instanceClass),
          dbSubnetGroupName |-> DbSubnetGroupName(Get(dbSubnetGroup)),
          tags |-> MergeTags(Get(defaultTags), Tags)])
    /\ i' = i + 1
    /\ UNCHANGED <<config, pc, lookups, defaultTags, securityGroup, dbSubnetGroup, rdsClusters,
                   dbInstances, outputs, numInstances, rdsEndpoint, username, password>>

\* loop exit; new TerraformOutput(this, "aurora_cluster_endpoint", ...); this.rdsEndpoint = ...
OutputAuroraClusterEndpoint ==
    /\ pc = "loop"
    /\ ~(i < numInstances)
    /\ outputs' = Append(outputs,
         [id |-> "aurora_cluster_endpoint",
          value |-> EndpointOf(rdsClusters[1])])
    /\ rdsEndpoint' = Some(EndpointOf(rdsClusters[1]))
    /\ pc' = "credentials"
    /\ UNCHANGED <<config, lookups, defaultTags, securityGroup, dbSubnetGroup, rdsClusters,
                   clusterInstances, dbInstances, numInstances, i, username, password>>

\* else { const rdsInstance = new DbInstance(this, "rds-instance", ...)
CreateDbInstance ==
    /\ pc = "branch"
    /\ ~TakesClusterBranch(config.isAurora)
    /\ dbInstances' = Append(dbInstances,
         [tfType |-> "aws_db_instance",
          id |-> "rds-instance",
          identifier |-> config.serviceName \o "-" \o config.env \o "-rds-instance",
          engine |-> config.engine,
          engineVersion |-> config.engineVersion,
          instanceClass |-> config.instanceClass,
          allocatedStorage |-> config.allocatedStorage,
          dbName |-> config.dbName,
          username |-> config.username,
          password |-> config.password,
          backupRetentionPeriod |-> config.backupRetentionPeriod,
          backupWindow |-> config.backupWindow,
          maintenanceWindow |-> config.maintenanceWindow,
          skipFinalSnapshot |-> TRUE,
          dbSubnetGroupName |-> DbSubnetGroupName(Get(dbSubnetGroup)),
          vpcSecurityGroupIds |-> VpcSecurityGroupIds(Get(securityGroup)),
          storageEncrypted |-> TRUE,
          storageType |-> InstanceStorageType,
          multiAz |-> MultiAz(config.numberOfInstances),
          tags |-> MergeTags(Get(defaultTags), Tags)])
    /\ pc' = "instanceOutput"
    /\ UNCHANGED <<config, lookups, defaultTags, securityGroup, dbSubnetGroup, rdsClusters,
                   clusterInstances, outputs, numInstances, i, rdsEndpoint, username, password>>

\* new TerraformOutput(this, "rds_instance_endpoint", ...); this.rdsEndpoint = ...
OutputRdsInstanceEndpoint ==
    /\ pc = "instanceOutput"
    /\ outputs' = Append(outputs,
         [id |-> "rds_instance_endpoint",
          value |-> EndpointOf(dbInstances[1])])
    /\ rdsEndpoint' = Some(EndpointOf(dbInstances[1]))
    /\ pc' = "credentials"
    /\ UNCHANGED <<config, lookups, defaultTags, securityGroup, dbSubnetGroup, rdsClusters,
                   clusterInstances, dbInstances, numInstances, i, username, password>>

\* this.username = username; this.password = password
SetCredentials ==
    /\ pc = "credentials"
    /\ username' = Some(config.username)
    /\ password' = Some(config.password)
    /\ pc' = "done"
    /\ UNCHANGED <<config, lookups, defaultTags, securityGroup, dbSubnetGroup, rdsClusters,
                   clusterInstances, dbInstances, outputs, numInstances, i, rdsEndpoint>>

Next ==
    \/ CreateLookups
    \/ CreateSecurityGroup
    \/ CreateDbSubnetGroup
    \/ CreateRdsCluster
    \/ CreateRdsClusterInstance
    \/ OutputAuroraClusterEndpoint
    \/ CreateDbInstance
    \/ OutputRdsInstanceEndpoint
    \/ SetCredentials

Spec == Init /\ [][Next]_vars

Done == pc = "done"

-----------------------------------------------------------------------------
(* Properties *)

ClusterIdRef == "${aws_rds_cluster.rds-cluster.id}"
SecurityGroupIdRef == "${aws_security_group.rds-sg.id}"
SubnetGroupNameRef == "${aws_db_subnet_group.db-subnet-group.name}"

InstanceSeq(seq) == {seq[n] : n \in 1..Len(seq)}

\* every resource emitted so far that carries a tag set
TaggedResources ==
    securityGroup \cup dbSubnetGroup \cup InstanceSeq(rdsClusters)
    \cup InstanceSeq(clusterInstances) \cup InstanceSeq(dbInstances)

\* every database resource emitted so far, in either topology
DatabaseResources ==
    InstanceSeq(rdsClusters) \cup InstanceSeq(clusterInstances) \cup InstanceSeq(dbInstances)

EncryptedGp3(r) ==
    /\ "storageEncrypted" \in DOMAIN r
    /\ r.storageEncrypted = TRUE
    /\ "storageType" \in DOMAIN r
    /\ r.storageType = "gp3"

ReferencesAccessGroup(r) ==
    /\ "vpcSecurityGroupIds" \in DOMAIN r
    /\ r.vpcSecurityGroupIds = <<SecurityGroupIdRef>>

ReferencesSubnetGrouping(r) ==
    /\ "dbSubnetGroupName" \in DOMAIN r
    /\ r.dbSubnetGroupName = SubnetGroupNameRef

NoResourceEmitted ==
    /\ lookups = {}
    /\ securityGroup = Undefined
    /\ dbSubnetGroup = Undefined
    /\ rdsClusters = <<>>
    /\ clusterInstances = <<>>
    /\ dbInstances = <<>>
    /\ outputs = <<>>

\* C1: with isAurora set and numberOfInstances = K, for every K >= 0 (K = 0
\* included), the finished construction holds exactly K cluster instances,
\* each referencing the one cluster of that construction.
C1_ExactlyKInstances ==
    (Done /\ config.isAurora /\ config.numberOfInstances # Undefined
          /\ Get(config.numberOfInstances) >= 0)
    => /\ Len(rdsClusters) = 1
       /\ Len(clusterInstances) = Get(config.numberOfInstances)
       /\ \A r \in InstanceSeq(clusterInstances) : r.clusterIdentifier = ClusterIdRef

\* C2: with isAurora set and numberOfInstances absent, the finished
\* construction holds exactly one cluster instance, attached to the cluster.
C2_DefaultOneInstance ==
    (Done /\ config.isAurora /\ config.numberOfInstances = Undefined)
    => /\ Len(rdsClusters) = 1
       /\ rdsClusters[1].tfType = "aws_rds_cluster" /\ rdsClusters[1].id = "rds-cluster"
       /\ Len(clusterInstances) = 1
       /\ clusterInstances[1].clusterIdentifier = ClusterIdRef

C2_Witness ==
    /\ Done /\ config.isAurora /\ config.numberOfInstances = Undefined
    /\ Len(clusterInstances) = 1

\* C3: with isAurora false and instanceClass omitted, construction fails:
\* it never completes and no resource at all is emitted (no lookup, no
\* access group, no subnet grouping, no database resource, no output).
C3_NoResourceOnMissingClass ==
    (~config.isAurora /\ config.instanceClass = Undefined)
    => (NoResourceEmitted /\ ~Done)

\* C4: with isAurora unset, the finished construction holds exactly one
\* standalone instance whatever numberOfInstances is, and its multiAz is
\* true iff numberOfInstances is present and greater than 1.
C4_StandaloneMultiAz ==
    (Done /\ ~config.isAurora)
    => /\ Len(dbInstances) = 1
       /\ dbInstances[1].multiAz =
            (\E k \in config.numberOfInstances : k > 1)

C4_Witness ==
    /\ Done /\ ~config.isAurora /\ config.numberOfInstances = Some(2)
    /\ Len(dbInstances) = 1 /\ dbInstances[1].multiAz

\* C5 as stated: storage encryption and the gp3 class are set on every
\* database resource emitted: cluster, each cluster instance, standalone instance.
C5_EveryDatabaseResourceEncryptedGp3 ==
    \A r \in DatabaseResources : EncryptedGp3(r)

\* C5 amended: storage encryption and the gp3 class are set on the cluster
\* and on the standalone instance; a cluster instance carries no storage
\* setting of its own.
C5_ClusterAndStandaloneEncryptedGp3 ==
    /\ \A r \in InstanceSeq(rdsClusters) \cup InstanceSeq(dbInstances) : EncryptedGp3(r)
    /\ \A r \in InstanceSeq(clusterInstances) :
         {"storageEncrypted", "storageType"} \cap DOMAIN r = {}

C5_Witness ==
    /\ Done /\ config.isAurora /\ Len(clusterInstances) = 2
    /\ EncryptedGp3(rdsClusters[1])

\* C6: the access group has a single ingress rule with fromPort = toPort =
\* 5432 when the engine identifier contains "postgres" (case-sensitive
\* substring), and 3306 for every other identifier.
C6_IngressPort ==
    securityGroup # Undefined
    => LET sg == Get(securityGroup)
           e == config.engine
           hasMarker == \E k \in 1..(Len(e) - 7) : SubSeq(e, k, k + 7) = postgres
       IN /\ Len(sg.ingress) = 1
          /\ sg.ingress[1].fromPort = sg.ingress[1].toPort
          /\ hasMarker => sg.ingress[1].fromPort = 5432
          /\ ~hasMarker => sg.ingress[1].fromPort = 3306

C6_Witness ==
    /\ Done
    /\ config.engine = <<"s", "p", "o", "s", "t", "g", "r", "e", "s">>
    /\ Get(securityGroup).ingress[1].fromPort = 5432
    /\ Get(securityGroup).ingress[1].toPort = 5432

\* C7: the tag set of every resource is the key-biased merge: a caller key
\* carries the caller's value (also when it collides with a default key), a
\* default key the caller did not supply keeps its default value, no other
\* key is present, and with tags omitted the tag set equals the defaults.
C7_TagMerge ==
    \A r \in TaggedResources :
        LET d == Get(defaultTags)
            t == IF config.tags = Undefined THEN <<>> ELSE Get(config.tags)
        IN /\ DOMAIN d = {"Name", "Service", "ENV", "Provisioner",
                          "Provisioned By", "Provisioned Date"}
           /\ DOMAIN r.tags = DOMAIN d \cup DOMAIN t
           /\ \A k \in DOMAIN t : r.tags[k] = t[k]
           /\ \A k \in DOMAIN d \ DOMAIN t : r.tags[k] = d[k]
           /\ config.tags = Undefined => r.tags = d

C7_Witness ==
    /\ Done
    /\ config.tags # Undefined
    /\ DOMAIN Get(config.tags) = {"Name", "team"}
    /\ Get(securityGroup).tags["Name"] = "custom"
    /\ Get(securityGroup).tags["Service"] = "svc"
    /\ Get(defaultTags)["Name"] = "svc-dev"

\* C8: the finished construction holds exactly one database variant, chosen
\* by isAurora alone: one cluster and no standalone instance when true; one
\* standalone instance, no cluster and no cluster instance when false.
C8_ExactlyOneVariant ==
    Done
    => /\ config.isAurora => (Len(rdsClusters) = 1 /\ Len(dbInstances) = 0)
       /\ ~config.isAurora
            => (Len(dbInstances) = 1 /\ Len(rdsClusters) = 0 /\ Len(clusterInstances) = 0)

C8_Witness ==
    /\ Done /\ ~config.isAurora /\ config.numberOfInstances = Some(2)
    /\ Len(dbInstances) = 1 /\ Len(rdsClusters) = 0 /\ clusterInstances = <<>>

\* C9: after construction rdsEndpoint is the cluster's endpoint when isAurora
\* and the standalone instance's endpoint otherwise, username and password
\* are the configured credentials, and exactly one output mirrors the
\* endpoint, named aurora_cluster_endpoint or rds_instance_endpoint.
C9_Outputs ==
    Done
    => /\ rdsEndpoint = Some(IF config.isAurora
                             THEN "${aws_rds_cluster.rds-cluster.endpoint}"
                             ELSE "${aws_db_instance.rds-instance.endpoint}")
       /\ username = Some(config.username)
       /\ password = Some(config.password)
       /\ Len(outputs) = 1
       /\ outputs[1].id = (IF config.isAurora THEN "aurora_cluster_endpoint"
                                              ELSE "rds_instance_endpoint")
       /\ Some(outputs[1].value) = rdsEndpoint

C9_Witness ==
    /\ Done /\ config.isAurora
    /\ rdsEndpoint = Some("${aws_rds_cluster.rds-cluster.endpoint}")
    /\ outputs[1].id = "aurora_cluster_endpoint"
    /\ username = Some("admin")

\* the access group and the subnet grouping of a finished construction
OneAccessGroupOneSubnetGrouping ==
    /\ securityGroup # Undefined
    /\ Get(securityGroup).tfType = "aws_security_group" /\ Get(securityGroup).id = "rds-sg"
    /\ Len(Get(securityGroup).ingress) = 1
    /\ Get(securityGroup).ingress[1].cidrBlocks = <<config.vpc.vpc_cidr>>
    /\ Get(securityGroup).ingress[1].ipv6CidrBlocks = <<config.vpc.vpc_ipv6_cidr>>
    /\ Len(Get(securityGroup).egress) = 1
    /\ Get(securityGroup).egress[1].protocol = "-1"
    /\ Get(securityGroup).egress[1].fromPort = 0 /\ Get(securityGroup).egress[1].toPort = 0
    /\ Get(securityGroup).egress[1].cidrBlocks = <<"0.0.0.0/0">>
    /\ Get(securityGroup).egress[1].ipv6CidrBlocks = <<"::/0">>
    /\ dbSubnetGroup # Undefined
    /\ Get(dbSubnetGroup).tfType = "aws_db_subnet_group"
    /\ Get(dbSubnetGroup).id = "db-subnet-group"
    /\ Get(dbSubnetGroup).subnetIds = config.vpc.database_subnet_ids

\* C10 as stated: one access group and one subnet grouping are emitted, and
\* every database resource (cluster, each cluster instance, standalone
\* instance) references both of them.
C10_EveryDatabaseResourceReferencesBoth ==
    Done
    => /\ OneAccessGroupOneSubnetGrouping
       /\ \A r \in DatabaseResources :
            ReferencesAccessGroup(r) /\ ReferencesSubnetGrouping(r)

\* C10 amended: one access group and one subnet grouping are emitted; the
\* cluster and the standalone instance reference both; each cluster instance
\* references the subnet grouping and holds no access-group reference.
C10_ClusterAndStandaloneReferenceBoth ==
    Done
    => /\ OneAccessGroupOneSubnetGrouping
       /\ \A r \in InstanceSeq(rdsClusters) \cup InstanceSeq(dbInstances) :
            ReferencesAccessGroup(r) /\ ReferencesSubnetGrouping(r)
       /\ \A r \in InstanceSeq(clusterInstances) :
            ReferencesSubnetGrouping(r) /\ "vpcSecurityGroupIds" \notin DOMAIN r

C10_Witness ==
    /\ Done /\ config.isAurora /\ Len(clusterInstances) = 2
    /\ ReferencesAccessGroup(rdsClusters[1])
    /\ ReferencesSubnetGrouping(clusterInstances[2])

====
